---- MODULE Spec2Model ----
(***************************************************************************)
(* Model of the Run Controller (AwesomeAgent), the Session Store           *)
(* (SessionManager) and the Tool Registry of awesome_agent.                *)
(*                                                                         *)
(* Every call of AwesomeAgent.run is one element of Calls.  An async       *)
(* function runs synchronously up to its next await, so one action is the  *)
(* code between two suspension points of one call.  Session objects live   *)
(* in a heap: the object a call's getOrCreate builds (by loading the file  *)
(* or by creating an empty session) is heap[c]; session[c] is the object   *)
(* the call works on, sessions[sid] the object the cache holds.            *)
(*                                                                         *)
(* Spec is the agent driven through its API (run and cancel).  The other   *)
(* specifications are the agent behind a GatewayServer: connections are    *)
(* accepted or refused, every accepted connection subscribes to the        *)
(* agent's events, and runs are started by 'agent' request frames.         *)
(* GatewaySpec has every auth configuration and frames of every kind,      *)
(* AnswerSpec the requests that are answered after an await, under         *)
(* fairness, FanoutSpec concurrent runs.  sent[k] is what ws.send was      *)
(* called with on connection k during the last step, in order; upgrade and *)
(* received are the connection request and the frame that step handled.    *)
(*                                                                         *)
(* StoreSpec is the agent with a reader of its session files: fs.writeFile *)
(* of save opens (and truncates) the file in one step and has written it   *)
(* in a later one, and list() reads the directory in between.  PolicySpec  *)
(* applies ToolRegistry.get and checkPermission to every ToolConfig.       *)
(*                                                                         *)
(* ServeSpec is the gateway with requests of several connections while     *)
(* runs are suspended.  RunSpec is one call of run() whose awaited model,  *)
(* tool and file operations all return or fail (weak fairness of its       *)
(* continuation).  ListenSpec is one call of run() in a program that adds  *)
(* and removes listeners, some of which throw: invoked is what emit called *)
(* during the last step, in order.                                         *)
(***************************************************************************)
EXTENDS Integers, Sequences, FiniteSets, TLC

\* ---------------------------------------------------------------- bounds
\* model calls answered in a behaviour with more than one call of run(), and
\* model calls after which a further call of run() may still be made
MaxModelCalls == 2
\* model calls whose answer is any of AllResponses; later ones answer TailResponses
MaxVaried == 2

\* ------------------------------------------------------ program constants
maxIterations == 10
contextWindow == 20

\* ----------------------------------------------------------------- inputs
Calls == {1, 2}
SessionIds == {"main", "other"}
RunIds == {"r1", "r2"}
UserMessages == {"list files"}
\* run ids are interchangeable: the first call takes "r1", a later call the
\* same id or another one
RunIdsOf(c) == IF c = 1 THEN {"r1"} ELSE RunIds

Undefined == "<undefined>"
Null == "<null>"
NoObject == 0

\* AgentConfig.maxConcurrent of the agent
maxConcurrent == 1

\* tools handed to ToolRegistry.register, and the ToolConfig list
RegisteredTools == {"filesystem", "browser", "exec"}
\* an optional list of a ToolConfig: undefined, or an array of names
NoList == [present |-> FALSE, items |-> {}]
ListOf(items) == [present |-> TRUE, items |-> items]
ToolConfig(enabled, allowlist, denylist) ==
  [enabled |-> enabled, allowlist |-> allowlist, denylist |-> denylist]
ToolConfigs ==
  [filesystem |-> ToolConfig(Undefined, NoList, ListOf({"filesystem"})),
   exec |-> ToolConfig("false", NoList, NoList)]
\* configs.get(name): the ToolConfig of a name, if one was given
NoConfig == [configured |-> FALSE, config |-> ToolConfig(Undefined, NoList, NoList)]
Configured(config) == [configured |-> TRUE, config |-> config]
\* what execute of each tool does: "filesystem" resolves, "browser" rejects
ThrowingTools == {"browser"}

\* the sessions directory when the process starts: a file of session "main"
PriorTranscript ==
  << [role |-> "user", content |-> <<"hello">>, by |-> 0],
     [role |-> "assistant", content |-> <<"Hi">>, by |-> 0] >>

\* a path of the sessions directory: no file, a file with the JSON text of a
\* session (content is its messages), or a file that fs.writeFile has opened
\* and truncated and not yet written: text that JSON.parse rejects
NoFile == [exists |-> FALSE, whole |-> TRUE, content |-> <<>>]
File(content) == [exists |-> TRUE, whole |-> TRUE, content |-> content]
Truncated == [exists |-> TRUE, whole |-> FALSE, content |-> <<>>]

\* ----------------------------------------------------------- gateway inputs
Conns == {1, 2}

\* a string that may be undefined (a header, a configured secret); its value
\* is a sequence of pieces, "Bearer " being one piece
Absent == [present |-> FALSE, value |-> <<>>]
Str(pieces) == [present |-> TRUE, value |-> pieces]

\* GatewayConfig.auth: not configured, or a mode and the optional token
AuthConfigs ==
  { [mode |-> Undefined, token |-> Absent],
    [mode |-> "none", token |-> Absent],
    [mode |-> "token", token |-> Str(<<"s3cret">>)],
    [mode |-> "token", token |-> Absent],
    [mode |-> "password", token |-> Absent] }

\* the Authorization header of the upgrade request
Headers == { Absent, Str(<<"Bearer ", "s3cret">>), Str(<<"Bearer ", "guess">>) }

\* String.prototype.replace(pattern, ''): the first occurrence is removed
RECURSIVE replace(_, _)
replace(pieces, pattern) ==
  IF pieces = <<>> THEN <<>>
  ELSE IF Head(pieces) = pattern THEN Tail(pieces)
  ELSE <<Head(pieces)>> \o replace(Tail(pieces), pattern)

\* authenticate(req), lines 294-306
authenticate_noCheck(auth, authorization) == TRUE

authenticate(auth, authorization) ==
  IF auth.mode = Undefined \/ auth.mode = "none" THEN TRUE
  ELSE IF auth.mode = "token"
  THEN LET token == IF authorization.present
                    THEN Str(replace(authorization.value, "Bearer "))
                    ELSE Absent
       IN token = auth.token
  ELSE FALSE

\* request ids: the agent request behind each call of run(), a status
\* request, and the other frames
RequestIdOf(c) == IF c = 1 THEN "q1" ELSE "q2"
StatusId == "q3"
SyncId == "q0"

\* An inbound frame: text that is not JSON ("invalid"), JSON null, or an
\* object with the fields that are present; params holds what handleRequest
\* reads of it.
NoParams == [present |-> FALSE, sessionId |-> Undefined, message |-> Undefined]
Params(sid, msg) == [present |-> TRUE, sessionId |-> sid, message |-> msg]
Frame(json, id, method, params) ==
  [json |-> json, id |-> id, method |-> method, params |-> params]

AgentFrame(c, sid, msg) == Frame("object", RequestIdOf(c), "agent", Params(sid, msg))
StatusFrame == Frame("object", StatusId, "status", Params(Undefined, Undefined))

\* the frames answered before the message handler returns: not JSON, null,
\* an object without method and params, an agent request without params,
\* connect, health without params, a method that does not exist
SyncFrames ==
  { Frame("invalid", Undefined, Undefined, NoParams),
    Frame("null", Undefined, Undefined, NoParams),
    Frame("object", SyncId, Undefined, NoParams),
    Frame("object", SyncId, "agent", NoParams),
    Frame("object", SyncId, "connect", Params(Undefined, Undefined)),
    Frame("object", SyncId, "health", NoParams),
    Frame("object", SyncId, "cancel", Params(Undefined, Undefined)) }

\* params of an agent request: sessionId and message as sent
SessionIdParams == {Undefined, "other"}
MessageParams == {"list files", ""}

\* ----------------------------------------------------------- gateway frames
WelcomeFrame ==
  [type |-> "event", event |-> "connected",
   payload |-> [message |-> "Welcome to Awesome Agent Gateway"]]

EventFrame(e) == [type |-> "event", event |-> "agent", payload |-> e]

\* sendResponse, lines 311-326
OkFrame(id, payload) == [type |-> "res", id |-> id, ok |-> TRUE, payload |-> payload]

ErrFrame_anonymous(id, msg) ==
  [type |-> "res", id |-> "error", ok |-> FALSE,
   error |-> [code |-> "INTERNAL_ERROR", message |-> msg]]

ErrFrame(id, msg) ==
  [type |-> "res", id |-> id, ok |-> FALSE,
   error |-> [code |-> "INTERNAL_ERROR", message |-> msg]]

\* sendError, lines 331-340
InvalidFrame ==
  [type |-> "res", id |-> "error", ok |-> FALSE,
   error |-> [code |-> "invalid_request", message |-> "Invalid request format"]]

\* ------------------------------------------------------------ ToolRegistry
\* configs.get(name)
configOf(name) ==
  IF name \in DOMAIN ToolConfigs THEN Configured(ToolConfigs[name]) ELSE NoConfig

\* config?.enabled === false
disabled(tc) == tc.configured /\ tc.config.enabled = "false"

get(name) ==
  IF name \notin RegisteredTools THEN Undefined
  ELSE IF disabled(configOf(name)) THEN Undefined
  ELSE name

\* checkPermission(toolName), lines 67-83
checkPermission(toolName, tc) ==
  IF ~ tc.configured THEN TRUE
  ELSE IF tc.config.allowlist.present /\ tc.config.allowlist.items # {} THEN TRUE
  ELSE IF tc.config.denylist.present /\ toolName \in tc.config.denylist.items THEN FALSE
  ELSE TRUE

\* ------------------------------------------------------------ model backend
\* a response of generate: the text and the names of the requested tools
TailResponses == { [text |-> <<>>, tools |-> <<"filesystem">>],
                   [text |-> <<"Done">>, tools |-> <<>>] }
AllResponses == TailResponses \cup
                { [text |-> <<"Checking">>, tools |-> <<"ghost", "browser">>],
                  [text |-> <<>>, tools |-> <<"exec", "filesystem">>] }

\* the ToolCall objects of a response: ids are unique within a run
MkToolCalls(iter, names) ==
  [k \in 1..Len(names) |-> [id |-> <<iter, k>>, name |-> names[k]]]

\* ---------------------------------------------------------------- messages
UserMessage(c, text) == [role |-> "user", content |-> <<text>>, by |-> c]

AssistantToolMessage(c, text, calls) ==
  [role |-> "assistant", content |-> text, toolCalls |-> calls, by |-> c]

AssistantMessage(c, text) == [role |-> "assistant", content |-> text, by |-> c]

\* JSON.stringify(result.result) of line 141
JsonOfResult(v) == IF v = Null THEN <<"null">> ELSE <<"json", v>>

ToolMessage(c, r) ==
  [role |-> "tool", content |-> JsonOfResult(r.result),
   toolResults |-> << [callId |-> r.callId, name |-> r.name,
                       result |-> r.result, error |-> r.error] >>,
   by |-> c]

ToolMessages(c, results) == [k \in 1..Len(results) |-> ToolMessage(c, results[k])]

\* JSON.stringify drops the keys whose value is undefined; JSON.parse gives
\* back objects without them
DropUndefined(rec) ==
  [f \in {g \in DOMAIN rec : rec[g] # Undefined} |-> rec[f]]

JsonMessage(m) ==
  IF "toolResults" \in DOMAIN m
  THEN [m EXCEPT !.toolResults = [k \in 1..Len(@) |-> DropUndefined(@[k])]]
  ELSE m

JsonStringify(messages) == [k \in 1..Len(messages) |-> JsonMessage(messages[k])]
JsonParse(content) == content

\* ------------------------------------------------------------ buildContext
Last(s, n) == IF Len(s) <= n THEN s ELSE SubSeq(s, Len(s) - n + 1, Len(s))

SystemMessage == [role |-> "system", content |-> <<"You are Awesome Agent">>, by |-> 0]

buildContext_whole(messages) == <<SystemMessage>> \o messages

buildContext(messages) == <<SystemMessage>> \o Last(messages, contextWindow)


\* ------------------------------------------------------------------ events
LifecycleEvent_alwaysEnd(rid, phase) ==
  [type |-> "lifecycle", runId |-> rid, phase |-> IF phase = "error" THEN "end" ELSE phase]

LifecycleEvent(rid, phase) == [type |-> "lifecycle", runId |-> rid, phase |-> phase]

AssistantEvent_turnOnly(rid, delta, full) ==
  [type |-> "assistant", runId |-> rid, phase |-> "delta", delta |-> delta, full |-> delta]

AssistantEvent(rid, delta, full) ==
  [type |-> "assistant", runId |-> rid, phase |-> "delta", delta |-> delta, full |-> full]

ToolEvent(rid, phase, call) ==
  [type |-> "tool", runId |-> rid, phase |-> phase, callId |-> call.id, name |-> call.name]

\* ------------------------------------------------------------ executeTools
\* the entries pushed on the results array (lines 246 and 261)
ToolSuccess(call, value) ==
  [callId |-> call.id, name |-> call.name, result |-> value, error |-> Undefined]

ToolFailure_noError(call, errorMessage) ==
  [callId |-> call.id, name |-> call.name, result |-> Null, error |-> Undefined]

ToolFailure(call, errorMessage) ==
  [callId |-> call.id, name |-> call.name, result |-> Null, error |-> errorMessage]

\* The for loop of executeTools from call i on, up to the next await: a call
\* whose tool is not found is caught without suspending, a call whose tool
\* exists suspends at tool.execute.
RECURSIVE executeToolsFrom_dropsMissing(_, _, _, _, _)
executeToolsFrom_dropsMissing(rid, calls, i, res, evs) ==
  IF i > Len(calls)
  THEN [suspended |-> FALSE, idx |-> 0, results |-> res, events |-> evs]
  ELSE LET call == calls[i]
           started == Append(evs, ToolEvent(rid, "start", call))
       IN IF get(call.name) = Undefined
          THEN executeToolsFrom_dropsMissing(rid, calls, i + 1, res,
                                Append(started, ToolEvent(rid, "error", call)))
          ELSE [suspended |-> TRUE, idx |-> i, results |-> res, events |-> started]

RECURSIVE executeToolsFrom(_, _, _, _, _)
executeToolsFrom(rid, calls, i, res, evs) ==
  IF i > Len(calls)
  THEN [suspended |-> FALSE, idx |-> 0, results |-> res, events |-> evs]
  ELSE LET call == calls[i]
           started == Append(evs, ToolEvent(rid, "start", call))
       IN IF get(call.name) = Undefined
          THEN executeToolsFrom(rid, calls, i + 1,
                                Append(res, ToolFailure(call, "Tool not found")),
                                Append(started, ToolEvent(rid, "error", call)))
          ELSE [suspended |-> TRUE, idx |-> i, results |-> res, events |-> started]

VARIABLES
  pc,                 \* position of each call of run()
  status,             \* run.status
  error,              \* run.error
  runId, sessionId, message,   \* params of each call
  outcome,            \* how the promise of run() settled
  activeRuns,         \* runId -> the tracked run
  sessions,           \* SessionManager cache: session id -> object
  heap,               \* messages of each session object
  session,            \* the object each call holds
  disk,               \* sessions directory: session id -> file content
  wbuf,               \* content handed to fs.writeFile, not yet written
  iteration, assistantResponse, toolCalls, toolIdx, results,  \* locals of agentLoop / executeTools
  context,            \* the messages given to the current generate call
  emitted,            \* events each call has emitted, in order
  lastCancel,         \* what the last call of cancel() returned
  modelCalls,         \* counter of the bounds
  turns,              \* history: the responses each call got from the model
  cancelled,          \* history: whether a cancel() moved the call's run to cancelled
                      \* ("no"), and whether the call was waiting on a tool then
  base,               \* history: length of the transcript when the call pushed its user message
  auth,               \* GatewayServer config.auth
  readyState,         \* ws.readyState of each connection ("none": not yet made)
  closeCode,          \* the code ws.close was called with, 0 if it was not
  upgrade,            \* the connection request handled in the last step, if any
  received,           \* the inbound frame handled in the last step, if any
  clients,            \* GatewayServer.clients
  eventListeners,     \* connections whose listeners are registered on the agent, in order
  sent,               \* what ws.send was called with on each connection in the last step
  caller,             \* the connection whose agent request made each call of run()
  statusPending,      \* the status request that waits for sessionManager.list()
  listed,             \* what the last call of sessionManager.list() returned
  policyInput,        \* a tool name and the ToolConfig registered for it
  policyResult,       \* whether a call of that tool was let through
  subscribed,         \* listeners the embedding program added with on(), per event, in order
  invoked,            \* the listener calls emit made in the last step, in order
  escaped             \* whether an exception of a listener left emit

runVars == <<pc, status, error, runId, sessionId, message, outcome, activeRuns>>
storeVars == <<sessions, heap, session, disk, wbuf>>
loopVars == <<iteration, assistantResponse, toolCalls, toolIdx, results, context>>
histVars == <<emitted, lastCancel, modelCalls, turns, cancelled, base>>
gwVars == <<auth, readyState, closeCode, upgrade, received, clients, eventListeners,
            sent, caller, statusPending>>
listenVars == <<subscribed, invoked, escaped>>
sideVars == <<listed, policyInput, policyResult, listenVars>>
vars == <<runVars, storeVars, loopVars, histVars, gwVars, sideVars>>

NoRun == 0
NoCancel == "none"
NoConn == 0
NoUpgrade == [conn |-> NoConn, authorization |-> Absent]
NoMessage == [conn |-> NoConn, frame |-> Frame("none", Undefined, Undefined, NoParams)]
NoFrames == [k \in Conns |-> <<>>]
NoStatus == [conn |-> NoConn, activeRuns |-> {}]
NotListed == [called |-> FALSE, ids |-> {}]
Channels == {"lifecycle", "assistant", "tool"}
NoListeners == [ch \in Channels |-> <<>>]
NoResult == [tool |-> "none", permission |-> "none"]

\* a GatewayServer constructed with config.auth = a, nothing connected
GatewayStart(a) ==
  /\ auth = a
  /\ readyState = [k \in Conns |-> "none"]
  /\ closeCode = [k \in Conns |-> 0]
  /\ upgrade = NoUpgrade
  /\ received = NoMessage
  /\ clients = {}
  /\ eventListeners = <<>>
  /\ sent = NoFrames
  /\ caller = [c \in Calls |-> NoConn]
  /\ statusPending = NoStatus

AgentInit ==
  /\ pc = [c \in Calls |-> "idle"]
  /\ status = [c \in Calls |-> "none"]
  /\ error = [c \in Calls |-> Undefined]
  /\ runId = [c \in Calls |-> "-"]
  /\ sessionId = [c \in Calls |-> "-"]
  /\ message = [c \in Calls |-> "-"]
  /\ outcome = [c \in Calls |-> "pending"]
  /\ activeRuns = [r \in RunIds |-> NoRun]
  /\ sessions = [s \in SessionIds |-> NoObject]
  /\ heap = [c \in Calls |-> <<>>]
  /\ session = [c \in Calls |-> NoObject]
  /\ disk = [s \in SessionIds |-> IF s = "main" THEN File(PriorTranscript) ELSE NoFile]
  /\ wbuf = [c \in Calls |-> <<>>]
  /\ iteration = [c \in Calls |-> 0]
  /\ assistantResponse = [c \in Calls |-> <<>>]
  /\ toolCalls = [c \in Calls |-> <<>>]
  /\ toolIdx = [c \in Calls |-> 0]
  /\ results = [c \in Calls |-> <<>>]
  /\ context = [c \in Calls |-> <<>>]
  /\ emitted = [c \in Calls |-> <<>>]
  /\ lastCancel = NoCancel
  /\ modelCalls = 0
  /\ turns = [c \in Calls |-> <<>>]
  /\ cancelled = [c \in Calls |-> "no"]
  /\ base = [c \in Calls |-> 0]

\* nothing was listed; the registry holds the configured tools
ListenStart ==
  /\ subscribed = NoListeners
  /\ invoked = <<>>
  /\ escaped = FALSE

SideStart ==
  /\ listed = NotListed
  /\ policyInput = [toolName |-> "filesystem", config |-> Configured(ToolConfigs.filesystem)]
  /\ policyResult = NoResult
  /\ ListenStart

Init == AgentInit /\ GatewayStart([mode |-> Undefined, token |-> Absent]) /\ SideStart


\* ------------------------------------------------------------- run helpers
\* A listener of the lifecycle 'start' event runs inside run() while the run
\* is still pending: until that call goes on, only code it calls can run.
NoPending == \A c \in Calls : pc[c] # "created"

Obj(c) == session[c]

\* Continuation of a call: where it suspends next, the locals it suspends
\* with, the messages of its session object and the events emitted on the way.
Continuation(c, p, iter, asst, calls, idx, res, msgs, evs) ==
  [pc |-> p, iteration |-> iter, assistantResponse |-> asst, toolCalls |-> calls,
   toolIdx |-> idx, results |-> res, messages |-> msgs, events |-> evs]

\* while (iteration < maxIterations) { iteration++; ... generate } or, when
\* the loop is left, return and sessionManager.save(session)
LoopHead_oneMore(c, iter, asst, msgs, evs) ==
  IF iter <= maxIterations
  THEN Continuation(c, "generate", iter + 1, asst, <<>>, 0, <<>>, msgs, evs)
  ELSE Continuation(c, "saving", iter, asst, <<>>, 0, <<>>, msgs, evs)

LoopHead(c, iter, asst, msgs, evs) ==
  IF iter < maxIterations
  THEN Continuation(c, "generate", iter + 1, asst, <<>>, 0, <<>>, msgs, evs)
  ELSE Continuation(c, "saving", iter, asst, <<>>, 0, <<>>, msgs, evs)

\* lines 129-153: the assistant message with the tool calls and one tool
\* message per result are pushed, then continue
AfterTools_resultsFirst(c, iter, asst, calls, res, msgs, evs) ==
  LoopHead(c, iter, asst,
           (msgs \o ToolMessages(c, res)) \o <<AssistantToolMessage(c, asst, calls)>>,
           evs)

AfterTools(c, iter, asst, calls, res, msgs, evs) ==
  LoopHead(c, iter, asst,
           (msgs \o <<AssistantToolMessage(c, asst, calls)>>) \o ToolMessages(c, res),
           evs)

\* lines 156-166: the final assistant message is pushed, break, return
AfterAnswer(c, iter, asst, msgs, evs) ==
  Continuation(c, "saving", iter, asst, <<>>, 0, <<>>,
               Append(msgs, AssistantMessage(c, asst)), evs)

\* executeTools from call i on, then the rest of the turn if it did not suspend
ToolsFrom(c, iter, asst, calls, i, res, msgs, evs) ==
  LET ex == executeToolsFrom(runId[c], calls, i, res, evs)
  IN IF ex.suspended
     THEN Continuation(c, "tool", iter, asst, calls, ex.idx, ex.results, msgs, ex.events)
     ELSE AfterTools(c, iter, asst, calls, ex.results, msgs, ex.events)

\* The call c, working on session object o, suspends as k says.  Entering
\* "saving" is the synchronous part of SessionManager.save: the cache entry is
\* set to the object and its JSON text is handed to fs.writeFile.
Suspend(c, o, k, cache, objects) ==
  /\ pc' = [pc EXCEPT ![c] = k.pc]
  /\ iteration' = [iteration EXCEPT ![c] = k.iteration]
  /\ assistantResponse' = [assistantResponse EXCEPT ![c] = k.assistantResponse]
  /\ toolCalls' = [toolCalls EXCEPT ![c] = k.toolCalls]
  /\ toolIdx' = [toolIdx EXCEPT ![c] = k.toolIdx]
  /\ results' = [results EXCEPT ![c] = k.results]
  /\ heap' = [objects EXCEPT ![o] = k.messages]
  /\ emitted' = [emitted EXCEPT ![c] = @ \o k.events]
  /\ context' = IF k.pc = "generate"
                THEN [context EXCEPT ![c] = buildContext(k.messages)]
                ELSE context
  /\ sessions' = IF k.pc = "saving" THEN [cache EXCEPT ![sessionId[c]] = o] ELSE cache
  /\ wbuf' = IF k.pc = "saving"
             THEN [wbuf EXCEPT ![c] = JsonStringify(k.messages)]
             ELSE wbuf

\* lines 60-68: the user message is pushed and agentLoop is entered
EnterLoop(c, o, cache, objects) ==
  /\ base' = [base EXCEPT ![c] = Len(objects[o])]
  /\ Suspend(c, o,
             LoopHead(c, 0, <<>>, Append(objects[o], UserMessage(c, message[c])), <<>>),
             cache, objects)

\* ------------------------------------------------------------------ actions
\* run(), lines 42-52: the run is created pending, tracked, 'start' is emitted
Run(c, sid, rid, msg) ==
  /\ pc[c] = "idle"
  /\ \A d \in Calls : d < c => pc[d] # "idle"
  /\ c = 1 \/ modelCalls <= MaxModelCalls
  /\ NoPending
  /\ pc' = [pc EXCEPT ![c] = "created"]
  /\ status' = [status EXCEPT ![c] = "pending"]
  /\ runId' = [runId EXCEPT ![c] = rid]
  /\ sessionId' = [sessionId EXCEPT ![c] = sid]
  /\ message' = [message EXCEPT ![c] = msg]
  /\ activeRuns' = [activeRuns EXCEPT ![rid] = c]
  /\ emitted' = [emitted EXCEPT ![c] = Append(@, LifecycleEvent(rid, "start"))]
  /\ UNCHANGED <<error, outcome, storeVars, loopVars,
                 lastCancel, modelCalls, turns, cancelled, base>>

\* run(), lines 55-58, and getOrCreate up to its first await
Begin(c) ==
  /\ pc[c] = "created"
  /\ status' = [status EXCEPT ![c] = "running"]
  /\ LET sid == sessionId[c] IN
       IF sessions[sid] # NoObject
       THEN \* cache hit: the cached object is returned
            /\ pc' = [pc EXCEPT ![c] = "gotSession"]
            /\ session' = [session EXCEPT ![c] = sessions[sid]]
            /\ UNCHANGED <<sessions, heap, wbuf>>
       ELSE IF disk[sid].exists
       THEN \* existsSync: await loadSession
            /\ pc' = [pc EXCEPT ![c] = "loading"]
            /\ UNCHANGED <<session, sessions, heap, wbuf>>
       ELSE \* a new session is cached and save(session) is awaited
            /\ pc' = [pc EXCEPT ![c] = "creating"]
            /\ heap' = [heap EXCEPT ![c] = <<>>]
            /\ session' = [session EXCEPT ![c] = c]
            /\ sessions' = [sessions EXCEPT ![sid] = c]
            /\ wbuf' = [wbuf EXCEPT ![c] = JsonStringify(<<>>)]
  /\ UNCHANGED <<error, runId, sessionId, message, outcome, activeRuns, disk,
                 loopVars, histVars>>

\* getOrCreate returned the cached session
GotSession(c) ==
  /\ pc[c] = "gotSession"
  /\ NoPending
  /\ EnterLoop(c, Obj(c), sessions, heap)
  /\ UNCHANGED <<status, error, runId, sessionId, message, outcome, activeRuns,
                 session, disk, lastCancel, modelCalls, turns, cancelled>>

\* loadSession: the file is read and parsed into a new object, which is cached
Loaded(c) ==
  /\ pc[c] = "loading"
  /\ disk[sessionId[c]].whole
  /\ NoPending
  /\ session' = [session EXCEPT ![c] = c]
  /\ EnterLoop(c, c, [sessions EXCEPT ![sessionId[c]] = c],
               [heap EXCEPT ![c] = JsonParse(disk[sessionId[c]].content)])
  /\ UNCHANGED <<status, error, runId, sessionId, message, outcome, activeRuns,
                 disk, lastCancel, modelCalls, turns, cancelled>>

\* the writeFile of the new session's save completed
Created(c) ==
  /\ pc[c] \in {"creating", "creatingOpen"}
  /\ NoPending
  /\ disk' = [disk EXCEPT ![sessionId[c]] = File(wbuf[c])]
  /\ EnterLoop(c, Obj(c), sessions, heap)
  /\ UNCHANGED <<status, error, runId, sessionId, message, outcome, activeRuns,
                 session, lastCancel, modelCalls, turns, cancelled>>


\* what the model backend may answer to the next generate call
\* what generate may throw: an Error object with its message
ModelErrors == { [isError |-> TRUE, message |-> "timeout"] }
Responses == IF modelCalls < MaxVaried THEN AllResponses ELSE TailResponses

\* the bound on the model calls
ModelAnswers == modelCalls < MaxModelCalls \/ \A d \in Calls : d > 1 => pc[d] = "idle"

\* agentLoop, lines 114-166: generate returned resp
Generate(c, resp) ==
  /\ pc[c] = "generate"
  /\ NoPending
  /\ ModelAnswers
  /\ modelCalls' = modelCalls + 1
  /\ turns' = [turns EXCEPT ![c] = Append(@, resp)]
  /\ LET asst == assistantResponse[c] \o resp.text
         evs == IF resp.text # <<>>
                THEN <<AssistantEvent(runId[c], resp.text, asst)>>
                ELSE <<>>
         calls == MkToolCalls(iteration[c], resp.tools)
         msgs == heap[Obj(c)]
     IN Suspend(c, Obj(c),
                IF Len(calls) > 0
                THEN ToolsFrom(c, iteration[c], asst, calls, 1, <<>>, msgs, evs)
                ELSE AfterAnswer(c, iteration[c], asst, msgs, evs),
                sessions, heap)
  /\ UNCHANGED <<status, error, runId, sessionId, message, outcome, activeRuns,
                 session, disk, lastCancel, cancelled, base>>

\* finally of run(): the entry under the run's id is deleted
Untrack(rid) == [activeRuns EXCEPT ![rid] = NoRun]

\* line 81: error instanceof Error ? error.message : String(error)
ErrorText_unknown(e) == "Unknown error"

ErrorText(e) == IF e.isError THEN e.message ELSE <<"String", e.message>>

\* generate rejected: catch of run(), lines 79-89
GenerateFails(c, err) ==
  /\ pc[c] = "generate"
  /\ NoPending
  /\ ModelAnswers
  /\ modelCalls' = modelCalls + 1
  /\ status' = [status EXCEPT ![c] = "error"]
  /\ error' = [error EXCEPT ![c] = ErrorText(err)]
  /\ emitted' = [emitted EXCEPT ![c] = Append(@, LifecycleEvent(runId[c], "error"))]
  /\ outcome' = [outcome EXCEPT ![c] = "rejected"]
  /\ activeRuns' = Untrack(runId[c])
  /\ pc' = [pc EXCEPT ![c] = "done"]
  /\ UNCHANGED <<runId, sessionId, message, storeVars, loopVars,
                 lastCancel, turns, cancelled, base>>

\* executeTools, lines 237-246: tool.execute resolved with value
ToolReturns(c, value) ==
  /\ pc[c] = "tool"
  /\ NoPending
  /\ toolCalls[c][toolIdx[c]].name \notin ThrowingTools
  /\ LET call == toolCalls[c][toolIdx[c]]
     IN Suspend(c, Obj(c),
                ToolsFrom(c, iteration[c], assistantResponse[c], toolCalls[c],
                          toolIdx[c] + 1,
                          Append(results[c], ToolSuccess(call, value)),
                          heap[Obj(c)],
                          <<ToolEvent(runId[c], "end", call)>>),
                sessions, heap)
  /\ UNCHANGED <<status, error, runId, sessionId, message, outcome, activeRuns,
                 session, disk, lastCancel, modelCalls, turns, cancelled, base>>

\* executeTools, lines 247-262: tool.execute rejected with errorMessage
ToolThrows(c, errorMessage) ==
  /\ pc[c] = "tool"
  /\ NoPending
  /\ toolCalls[c][toolIdx[c]].name \in ThrowingTools
  /\ LET call == toolCalls[c][toolIdx[c]]
     IN Suspend(c, Obj(c),
                ToolsFrom(c, iteration[c], assistantResponse[c], toolCalls[c],
                          toolIdx[c] + 1,
                          Append(results[c], ToolFailure(call, errorMessage)),
                          heap[Obj(c)],
                          <<ToolEvent(runId[c], "error", call)>>),
                sessions, heap)
  /\ UNCHANGED <<status, error, runId, sessionId, message, outcome, activeRuns,
                 session, disk, lastCancel, modelCalls, turns, cancelled, base>>

\* save's writeFile completed: run(), lines 73-78 and the finally
Saved(c) ==
  /\ pc[c] \in {"saving", "savingOpen"}
  /\ NoPending
  /\ disk' = [disk EXCEPT ![sessionId[c]] = File(wbuf[c])]
  /\ status' = [status EXCEPT ![c] = "completed"]
  /\ emitted' = [emitted EXCEPT ![c] = Append(@, LifecycleEvent(runId[c], "end"))]
  /\ outcome' = [outcome EXCEPT ![c] = "resolved"]
  /\ activeRuns' = Untrack(runId[c])
  /\ pc' = [pc EXCEPT ![c] = "done"]
  /\ UNCHANGED <<error, runId, sessionId, message, sessions, heap, session, wbuf,
                 loopVars, lastCancel, modelCalls, turns, cancelled, base>>

\* cancel(runId), lines 271-280
canCancel(run) == run # NoRun /\ status[run] = "running"

cancelReturns_always(run) == "true"

cancelReturns(run) == IF canCancel(run) THEN "true" ELSE "false"

Cancel(rid) ==
  LET run == activeRuns[rid]
  IN /\ lastCancel' = cancelReturns(run)
     /\ IF canCancel(run)
        THEN /\ status' = [status EXCEPT ![run] = "cancelled"]
             /\ activeRuns' = [activeRuns EXCEPT ![rid] = NoRun]
             /\ cancelled' = [cancelled EXCEPT
                                 ![run] = IF pc[run] = "tool" THEN "tool" ELSE "other"]
        ELSE UNCHANGED <<status, activeRuns, cancelled>>
     /\ UNCHANGED <<pc, error, runId, sessionId, message, outcome, storeVars,
                    loopVars, emitted, modelCalls, turns, base>>

ToolValues == {"listing"}
ToolErrors == {"EACCES"}

Next ==
  \/ \E c \in Calls : \E sid \in SessionIds, rid \in RunIdsOf(c), msg \in UserMessages :
       Run(c, sid, rid, msg) /\ UNCHANGED <<gwVars, sideVars>>
  \/ \E c \in Calls : Begin(c) /\ UNCHANGED <<gwVars, sideVars>>
  \/ \E c \in Calls : GotSession(c) /\ UNCHANGED <<gwVars, sideVars>>
  \/ \E c \in Calls : Loaded(c) /\ UNCHANGED <<gwVars, sideVars>>
  \/ \E c \in Calls : Created(c) /\ UNCHANGED <<gwVars, sideVars>>
  \/ \E c \in Calls : \E resp \in Responses : Generate(c, resp) /\ UNCHANGED <<gwVars, sideVars>>
  \/ \E c \in Calls : \E err \in ModelErrors : GenerateFails(c, err) /\ UNCHANGED <<gwVars, sideVars>>
  \/ \E c \in Calls : \E value \in ToolValues : ToolReturns(c, value) /\ UNCHANGED <<gwVars, sideVars>>
  \/ \E c \in Calls : \E errorMessage \in ToolErrors :
       ToolThrows(c, errorMessage) /\ UNCHANGED <<gwVars, sideVars>>
  \/ \E c \in Calls : Saved(c) /\ UNCHANGED <<gwVars, sideVars>>
  \/ \E rid \in RunIds : Cancel(rid) /\ UNCHANGED <<gwVars, sideVars>>

Spec == Init /\ [][Next]_vars


\* ================================================================= gateway
agentVars == <<runVars, storeVars, loopVars, histVars>>

\* send, lines 345-349: only an OPEN socket is written to
send(fr, k, frame) ==
  IF readyState[k] = "OPEN" THEN [fr EXCEPT ![k] = Append(@, frame)] ELSE fr

\* sendError, lines 331-340: ws.send without looking at readyState
sendError_silent(fr, k) == fr

sendError(fr, k) == [fr EXCEPT ![k] = Append(@, InvalidFrame)]

\* AwesomeAgent.emit: the listeners are called in the order they were added;
\* the listener of connection ls[i] sends the event to that connection
RECURSIVE emit(_, _, _, _)
emit_untilClosed(fr, ls, i, e) ==
  IF i > Len(ls) \/ readyState[ls[i]] # "OPEN" THEN fr
  ELSE emit(send(fr, ls[i], EventFrame(e)), ls, i + 1, e)

emit(fr, ls, i, e) ==
  IF i > Len(ls) THEN fr
  ELSE emit(send(fr, ls[i], EventFrame(e)), ls, i + 1, e)

RECURSIVE emitAll(_, _, _)
emitAll_lastFirst(fr, evs, j) ==
  IF j > Len(evs) THEN fr
  ELSE emit(emitAll(fr, evs, j + 1), eventListeners, 1, evs[j])

emitAll(fr, evs, j) ==
  IF j > Len(evs) THEN fr
  ELSE emitAll(emit(fr, eventListeners, 1, evs[j]), evs, j + 1)

\* the events the call c emits in this step reach the listeners
NewEvents(c) == SubSeq(emitted'[c], Len(emitted[c]) + 1, Len(emitted'[c]))

Forward(c) ==
  /\ sent' = emitAll(NoFrames, NewEvents(c), 1)
  /\ upgrade' = NoUpgrade
  /\ received' = NoMessage
  /\ UNCHANGED <<sideVars, auth, readyState, closeCode, clients, eventListeners,
                 caller, statusPending>>

\* lines 186-190: the welcome event
Welcome_none(k) == NoFrames

Welcome(k) == [NoFrames EXCEPT ![k] = <<WelcomeFrame>>]

\* wss.on('connection'), lines 175-220
Connection(k, header) ==
  /\ readyState[k] = "none"
  /\ \A j \in Conns : j < k => readyState[j] # "none"
  /\ upgrade' = [conn |-> k, authorization |-> header]
  /\ received' = NoMessage
  /\ IF ~ authenticate(auth, header)
     THEN /\ readyState' = [readyState EXCEPT ![k] = "CLOSED"]
          /\ closeCode' = [closeCode EXCEPT ![k] = 1008]
          /\ sent' = NoFrames
          /\ UNCHANGED <<clients, eventListeners>>
     ELSE /\ readyState' = [readyState EXCEPT ![k] = "OPEN"]
          /\ clients' = clients \cup {k}
          /\ sent' = Welcome(k)
          /\ eventListeners' = Append(eventListeners, k)
          /\ UNCHANGED closeCode
  /\ UNCHANGED <<sideVars, auth, caller, statusPending, agentVars>>

\* the client went away: ws.on('close'), lines 203-206
Close(k) ==
  /\ readyState[k] = "OPEN"
  /\ readyState' = [readyState EXCEPT ![k] = "CLOSED"]
  /\ clients' = clients \ {k}
  /\ sent' = NoFrames
  /\ upgrade' = NoUpgrade
  /\ received' = NoMessage
  /\ UNCHANGED <<sideVars, auth, closeCode, eventListeners, caller,
                 statusPending, agentVars>>

\* the message of the Error thrown for a method that is no case of the switch
UnknownMethod(method) ==
  IF method = Undefined THEN "Unknown method: undefined" ELSE "Unknown method: cancel"

\* ws.on('message') and handleRequest for a frame answered without an await:
\* JSON.parse throws, or reading method and then id of null throws, and the
\* handler's catch calls sendError; otherwise handleRequest answers
Reply(fr, k, f) ==
  IF f.json \in {"invalid", "null"} THEN sendError(fr, k)
  ELSE IF f.method = "connect"
  THEN send(fr, k, OkFrame(f.id, [message |-> "Connected successfully"]))
  ELSE IF f.method = "health"
  THEN send(fr, k, OkFrame(f.id, [status |-> "ok", clients |-> Cardinality(clients),
                                  agent |-> "ready"]))
  ELSE IF f.method = "agent"
  THEN send(fr, k, ErrFrame(f.id, "TypeError"))
  ELSE send(fr, k, ErrFrame(f.id, UnknownMethod(f.method)))

Message_afterRuns(k, f) ==
  /\ readyState[k] = "OPEN"
  /\ \A c \in Calls : pc[c] \notin {"generate", "tool"}
  /\ sent' = Reply(NoFrames, k, f)
  /\ upgrade' = NoUpgrade
  /\ received' = [conn |-> k, frame |-> f]
  /\ UNCHANGED <<sideVars, auth, readyState, closeCode, clients, eventListeners,
                 caller, statusPending, agentVars>>

Message(k, f) ==
  /\ readyState[k] = "OPEN"
  /\ sent' = Reply(NoFrames, k, f)
  /\ upgrade' = NoUpgrade
  /\ received' = [conn |-> k, frame |-> f]
  /\ UNCHANGED <<sideVars, auth, readyState, closeCode, clients, eventListeners,
                 caller, statusPending, agentVars>>

\* run(), line 42: an id is generated when params.runId is missing
GeneratedRunId(c) == IF c = 1 THEN "r1" ELSE "r2"

\* handleRequest, case 'agent', lines 253-260, up to the await of agent.run
AgentRequest(k, c, sid, msg) ==
  /\ readyState[k] = "OPEN"
  /\ Run(c, IF sid = Undefined THEN "main" ELSE sid, GeneratedRunId(c), msg)
  /\ caller' = [caller EXCEPT ![c] = k]
  /\ sent' = emitAll(NoFrames, NewEvents(c), 1)
  /\ upgrade' = NoUpgrade
  /\ received' = [conn |-> k, frame |-> AgentFrame(c, sid, msg)]
  /\ UNCHANGED <<sideVars, auth, readyState, closeCode, clients, eventListeners,
                 statusPending>>

\* handleRequest after the await of agent.run, lines 260-287: the response
Respond(c) ==
  /\ pc[c] = "done"
  /\ caller[c] # NoConn
  /\ pc' = [pc EXCEPT ![c] = "responded"]
  /\ sent' = send(NoFrames, caller[c],
                    IF outcome[c] = "resolved"
                    THEN OkFrame(RequestIdOf(c), [runId |-> runId[c], status |-> status[c]])
                    ELSE ErrFrame(RequestIdOf(c), error[c]))
  /\ upgrade' = NoUpgrade
  /\ received' = NoMessage
  /\ UNCHANGED <<status, error, runId, sessionId, message, outcome, activeRuns,
                 storeVars, loopVars, histVars,
                 sideVars, auth, readyState, closeCode, clients, eventListeners,
                 caller, statusPending>>

\* SessionManager.list(): the sessions of the files that parse; a file that
\* does not is skipped with a warning
list == {sid \in SessionIds : disk[sid].exists /\ disk[sid].whole}

\* handleRequest, case 'status', lines 270-275: the ids of activeRuns are
\* read, then sessionManager.list() is awaited
StatusRequest(k) ==
  /\ readyState[k] = "OPEN"
  /\ statusPending = NoStatus
  /\ statusPending' = [conn |-> k, activeRuns |-> {r \in RunIds : activeRuns[r] # NoRun}]
  /\ sent' = NoFrames
  /\ upgrade' = NoUpgrade
  /\ received' = [conn |-> k, frame |-> StatusFrame]
  /\ UNCHANGED <<sideVars, auth, readyState, closeCode, clients, eventListeners, caller, agentVars>>

\* list() returned the sessions read from the directory; the response
StatusReplies(k) ==
  /\ statusPending.conn = k
  /\ statusPending' = NoStatus
  /\ sent' = send(NoFrames, k,
                  OkFrame(StatusId,
                          [activeRuns |-> statusPending.activeRuns,
                           sessions |-> Cardinality(list)]))
  /\ upgrade' = NoUpgrade
  /\ received' = NoMessage
  /\ UNCHANGED <<sideVars, auth, readyState, closeCode, clients, eventListeners, caller, agentVars>>

\* what the model backend answers behind the gateway: the bound on the model
\* calls is met by final answers
GatewayResponses ==
  IF modelCalls < MaxModelCalls THEN TailResponses
  ELSE {r \in TailResponses : r.tools = <<>>}

\* A gateway of any configuration, its clients sending frames of every kind
\* and one agent request.  With one request no session is found in the cache
\* (GotSession), and the model asks for the filesystem tool only, whose execute
\* returns (ToolThrows needs the browser tool).
GatewayInit == AgentInit /\ (\E a \in AuthConfigs : GatewayStart(a)) /\ SideStart

GatewayNext ==
  \/ \E k \in Conns : \E header \in Headers : Connection(k, header)
  \/ \E k \in Conns : Close(k)
  \/ \E k \in Conns : \E f \in SyncFrames : Message(k, f)
  \/ \E k \in Conns : \E sid \in SessionIdParams, msg \in MessageParams :
       AgentRequest(k, 1, sid, msg)
  \/ \E c \in Calls : Begin(c) /\ Forward(c)
  \/ \E c \in Calls : Loaded(c) /\ Forward(c)
  \/ \E c \in Calls : Created(c) /\ Forward(c)
  \/ \E c \in Calls : \E resp \in GatewayResponses : Generate(c, resp) /\ Forward(c)
  \/ \E c \in Calls : \E err \in ModelErrors : GenerateFails(c, err) /\ Forward(c)
  \/ \E c \in Calls : \E value \in ToolValues : ToolReturns(c, value) /\ Forward(c)
  \/ \E c \in Calls : Saved(c) /\ Forward(c)
  \/ \E c \in Calls : Respond(c)

GatewaySpec == GatewayInit /\ [][GatewayNext]_vars

FanoutInit == AgentInit /\ GatewayStart([mode |-> "none", token |-> Absent]) /\ SideStart

\* A gateway without authentication, its clients sending request frames of
\* every method and one agent request on session 'main', with the event loop
\* running every continuation that is ready and the model backend, the tools
\* and the file system returning from every call.  The file of 'main' exists,
\* so the session is loaded (neither GotSession nor Created), and the model
\* asks for the filesystem tool only.
RequestFrames == {f \in SyncFrames : f.json = "object"}

Continue(c) ==
  \/ Begin(c) /\ Forward(c)
  \/ Loaded(c) /\ Forward(c)
  \/ \E resp \in GatewayResponses : Generate(c, resp) /\ Forward(c)
  \/ \E err \in ModelErrors : GenerateFails(c, err) /\ Forward(c)
  \/ \E value \in ToolValues : ToolReturns(c, value) /\ Forward(c)
  \/ Saved(c) /\ Forward(c)
  \/ Respond(c)

AnswerNext ==
  \/ \E k \in Conns : Connection(k, Absent)
  \/ \E k \in Conns : Close(k)
  \/ \E k \in Conns : \E f \in RequestFrames : Message(k, f)
  \/ \E k \in Conns : AgentRequest(k, 1, Undefined, "list files")
  \/ \E k \in Conns : StatusRequest(k)
  \/ \E k \in Conns : StatusReplies(k)
  \/ \E c \in Calls : Continue(c)

AnswerSpec ==
  /\ FanoutInit
  /\ [][AnswerNext]_vars
  /\ WF_vars(\E c \in Calls : Continue(c))
  /\ WF_vars(\E k \in Conns : StatusReplies(k))

\* A gateway without authentication whose clients send agent requests that run
\* concurrently on session 'main', whose file exists (so Created has no case).
FanoutNext ==
  \/ \E k \in Conns : Connection(k, Absent)
  \/ \E k \in Conns : Close(k)
  \/ \E k \in Conns : \E c \in Calls : AgentRequest(k, c, Undefined, "list files")
  \/ \E c \in Calls : Begin(c) /\ Forward(c)
  \/ \E c \in Calls : GotSession(c) /\ Forward(c)
  \/ \E c \in Calls : Loaded(c) /\ Forward(c)
  \/ \E c \in Calls : \E resp \in Responses : Generate(c, resp) /\ Forward(c)
  \/ \E c \in Calls : \E err \in ModelErrors : GenerateFails(c, err) /\ Forward(c)
  \/ \E c \in Calls : \E value \in ToolValues : ToolReturns(c, value) /\ Forward(c)
  \/ \E c \in Calls : \E errorMessage \in ToolErrors :
       ToolThrows(c, errorMessage) /\ Forward(c)
  \/ \E c \in Calls : Saved(c) /\ Forward(c)
  \/ \E c \in Calls : Respond(c)

FanoutSpec == FanoutInit /\ [][FanoutNext]_vars

\* A gateway without authentication whose clients send health, status and
\* agent requests while the runs of other requests wait for the model or a
\* tool.
HealthFrame == Frame("object", SyncId, "health", NoParams)

ServeNext ==
  \/ \E k \in Conns : Connection(k, Absent)
  \/ \E k \in Conns : Message(k, HealthFrame)
  \/ \E k \in Conns : StatusRequest(k)
  \/ \E k \in Conns : StatusReplies(k)
  \/ \E k \in Conns : \E c \in Calls : AgentRequest(k, c, Undefined, "list files")
  \/ \E c \in Calls : Begin(c) /\ Forward(c)
  \/ \E c \in Calls : GotSession(c) /\ Forward(c)
  \/ \E c \in Calls : Loaded(c) /\ Forward(c)
  \/ \E c \in Calls : \E resp \in GatewayResponses : Generate(c, resp) /\ Forward(c)
  \/ \E c \in Calls : \E err \in ModelErrors : GenerateFails(c, err) /\ Forward(c)
  \/ \E c \in Calls : \E value \in ToolValues : ToolReturns(c, value) /\ Forward(c)
  \/ \E c \in Calls : Saved(c) /\ Forward(c)
  \/ \E c \in Calls : Respond(c)

ServeSpec == FanoutInit /\ [][ServeNext]_vars


\* ============================================================ session store
\* fs.writeFile of save, line 386, opened the file: a file opened for writing
\* is truncated, and the text is written after that
WriteOpens(c) ==
  /\ pc[c] \in {"saving", "creating"}
  /\ pc' = [pc EXCEPT ![c] = IF pc[c] = "saving" THEN "savingOpen" ELSE "creatingOpen"]
  /\ disk' = [disk EXCEPT ![sessionId[c]] = Truncated]
  /\ UNCHANGED <<status, error, runId, sessionId, message, outcome, activeRuns,
                 sessions, heap, session, wbuf, loopVars, histVars, gwVars, sideVars>>

\* what JSON.parse throws for the text of a truncated file
ParseError == [isError |-> TRUE, message |-> "Unexpected end of JSON input"]

\* loadSession read a file that is being written: JSON.parse throws in
\* getOrCreate, line 358, and the catch of run() ends the run
LoadFails(c) ==
  /\ pc[c] = "loading"
  /\ ~ disk[sessionId[c]].whole
  /\ NoPending
  /\ status' = [status EXCEPT ![c] = "error"]
  /\ error' = [error EXCEPT ![c] = ErrorText(ParseError)]
  /\ emitted' = [emitted EXCEPT ![c] = Append(@, LifecycleEvent(runId[c], "error"))]
  /\ outcome' = [outcome EXCEPT ![c] = "rejected"]
  /\ activeRuns' = Untrack(runId[c])
  /\ pc' = [pc EXCEPT ![c] = "done"]
  /\ UNCHANGED <<runId, sessionId, message, storeVars, loopVars,
                 lastCancel, modelCalls, turns, cancelled, base, gwVars, sideVars>>

\* sessionManager.list() called and returned
List ==
  /\ listed' = [called |-> TRUE, ids |-> list]
  /\ UNCHANGED <<agentVars, gwVars, policyInput, policyResult, listenVars>>

\* the answers of a model that asks for no tool
PlainResponses == {r \in TailResponses : r.tools = <<>>}

\* The agent and a reader of its session store, with the writes of save in
\* their two steps: runs on both sessions whose model answers in plain text,
\* and list() called at any moment.
StoreNext ==
  \/ \E c \in Calls : \E sid \in SessionIds, msg \in UserMessages :
       Run(c, sid, GeneratedRunId(c), msg) /\ UNCHANGED <<gwVars, sideVars>>
  \/ \E c \in Calls : Begin(c) /\ UNCHANGED <<gwVars, sideVars>>
  \/ \E c \in Calls : GotSession(c) /\ UNCHANGED <<gwVars, sideVars>>
  \/ \E c \in Calls : Loaded(c) /\ UNCHANGED <<gwVars, sideVars>>
  \/ \E c \in Calls : LoadFails(c)
  \/ \E c \in Calls : Created(c) /\ UNCHANGED <<gwVars, sideVars>>
  \/ \E c \in Calls : \E resp \in PlainResponses :
       Generate(c, resp) /\ UNCHANGED <<gwVars, sideVars>>
  \/ \E c \in Calls : \E err \in ModelErrors :
       GenerateFails(c, err) /\ UNCHANGED <<gwVars, sideVars>>
  \/ \E c \in Calls : WriteOpens(c)
  \/ \E c \in Calls : Saved(c) /\ UNCHANGED <<gwVars, sideVars>>
  \/ List

StoreSpec == Init /\ [][StoreNext]_vars


\* ================================================================== one run
\* the continuation of call c that is ready: what the file system, the model
\* backend or the tool it waits for returned or threw
Resume(c) ==
  \/ Begin(c) /\ UNCHANGED <<gwVars, sideVars>>
  \/ Loaded(c) /\ UNCHANGED <<gwVars, sideVars>>
  \/ Created(c) /\ UNCHANGED <<gwVars, sideVars>>
  \/ \E resp \in Responses : Generate(c, resp) /\ UNCHANGED <<gwVars, sideVars>>
  \/ \E err \in ModelErrors : GenerateFails(c, err) /\ UNCHANGED <<gwVars, sideVars>>
  \/ \E value \in ToolValues : ToolReturns(c, value) /\ UNCHANGED <<gwVars, sideVars>>
  \/ \E errorMessage \in ToolErrors : ToolThrows(c, errorMessage) /\ UNCHANGED <<gwVars, sideVars>>
  \/ Saved(c) /\ UNCHANGED <<gwVars, sideVars>>

\* One call of run(), and calls of cancel(), with every awaited operation of
\* the run returning or failing: the event loop runs a continuation that is
\* ready.
RunNext ==
  \/ \E sid \in SessionIds, msg \in UserMessages :
       Run(1, sid, "r1", msg) /\ UNCHANGED <<gwVars, sideVars>>
  \/ Resume(1)
  \/ \E rid \in RunIds : Cancel(rid) /\ UNCHANGED <<gwVars, sideVars>>

RunSpec == Init /\ [][RunNext]_vars /\ WF_vars(Resume(1))


\* ================================================================ listeners
\* the listeners of the embedding program (part_001, lines 37-47, and any
\* other caller of on()); a listener of ThrowingListeners throws when called
Listeners == {"log", "render"}
ThrowingListeners == {"render"}

Range(seq) == {seq[k] : k \in 1..Len(seq)}

\* on(), lines 292-297: a Set keeps insertion order and adds a member once
on(ch, listener) ==
  IF listener \in Range(subscribed[ch]) THEN subscribed
  ELSE [subscribed EXCEPT ![ch] = Append(@, listener)]

\* off(), lines 299-301
off(ch, listener) ==
  [subscribed EXCEPT ![ch] = SelectSeq(@, LAMBDA l : l # listener)]

ListenerCall(listener, e) ==
  [listener |-> listener, event |-> e, threw |-> listener \in ThrowingListeners]

\* emit, lines 303-311: forEach over the listeners of the event from the i-th
\* on, each called inside its own try/catch
RECURSIVE forEachListener(_, _, _, _)
forEachListener_uncaught(calls, ls, i, e) ==
  IF i > Len(ls) THEN [calls |-> calls, escaped |-> FALSE]
  ELSE IF ls[i] \in ThrowingListeners
  THEN [calls |-> Append(calls, ListenerCall(ls[i], e)), escaped |-> TRUE]
  ELSE forEachListener(Append(calls, ListenerCall(ls[i], e)), ls, i + 1, e)

forEachListener(calls, ls, i, e) ==
  IF i > Len(ls) THEN [calls |-> calls, escaped |-> FALSE]
  ELSE forEachListener(Append(calls, ListenerCall(ls[i], e)), ls, i + 1, e)

\* the emit calls of one step, from the j-th event on; an exception that
\* leaves emit ends them
RECURSIVE emitEach(_, _, _)
emitEach(calls, evs, j) ==
  IF j > Len(evs) THEN [calls |-> calls, escaped |-> FALSE]
  ELSE LET r == forEachListener(calls, subscribed[evs[j].type], 1, evs[j])
       IN IF r.escaped THEN r ELSE emitEach(r.calls, evs, j + 1)

\* the events the call c emits in this step reach the program's listeners
Deliver(c) ==
  /\ LET r == emitEach(<<>>, NewEvents(c), 1)
     IN /\ invoked' = r.calls
        /\ escaped' = r.escaped
  /\ UNCHANGED <<gwVars, listed, policyInput, policyResult, subscribed>>

On(ch, listener) ==
  /\ subscribed' = on(ch, listener)
  /\ invoked' = <<>>
  /\ UNCHANGED <<agentVars, gwVars, listed, policyInput, policyResult, escaped>>

Off(ch, listener) ==
  /\ subscribed' = off(ch, listener)
  /\ invoked' = <<>>
  /\ UNCHANGED <<agentVars, gwVars, listed, policyInput, policyResult, escaped>>

\* One call of run() in a program that adds and removes listeners.
ListenNext ==
  \/ \E ch \in Channels, listener \in Listeners : On(ch, listener)
  \/ \E ch \in Channels, listener \in Listeners : Off(ch, listener)
  \/ \E sid \in SessionIds, msg \in UserMessages : Run(1, sid, "r1", msg) /\ Deliver(1)
  \/ Begin(1) /\ Deliver(1)
  \/ Loaded(1) /\ Deliver(1)
  \/ Created(1) /\ Deliver(1)
  \/ \E resp \in GatewayResponses : Generate(1, resp) /\ Deliver(1)
  \/ \E err \in ModelErrors : GenerateFails(1, err) /\ Deliver(1)
  \/ \E value \in ToolValues : ToolReturns(1, value) /\ Deliver(1)
  \/ Saved(1) /\ Deliver(1)

ListenSpec == Init /\ [][ListenNext]_vars


\* ============================================================ tool registry
\* the registered tools a call may name, and the ToolConfig given for one
PolicyTools == {"exec", "filesystem"}
PolicyLists == {NoList, ListOf({})} \cup {ListOf({t}) : t \in PolicyTools}
PolicyConfigs ==
  {NoConfig} \cup
  { Configured(ToolConfig(e, a, d)) :
      e \in {Undefined, "true", "false"}, a \in PolicyLists, d \in PolicyLists }

PolicyInit ==
  /\ AgentInit
  /\ GatewayStart([mode |-> Undefined, token |-> Absent])
  /\ listed = NotListed
  /\ policyInput \in [toolName : PolicyTools, config : PolicyConfigs]
  /\ policyResult = NoResult
  /\ ListenStart

\* toolRegistry.get(toolName) with that config registered
GetTool ==
  /\ policyResult.tool = "none"
  /\ policyResult' = [policyResult EXCEPT
                        !.tool = IF disabled(policyInput.config) THEN Undefined ELSE "found"]
  /\ UNCHANGED <<agentVars, gwVars, listed, policyInput, listenVars>>

\* toolRegistry.checkPermission(toolName)
CheckPermission ==
  /\ policyResult.permission = "none"
  /\ policyResult' = [policyResult EXCEPT
                        !.permission = IF checkPermission(policyInput.toolName, policyInput.config)
                                       THEN "true" ELSE "false"]
  /\ UNCHANGED <<agentVars, gwVars, listed, policyInput, listenVars>>

PolicyNext == GetTool \/ CheckPermission

PolicySpec == PolicyInit /\ [][PolicyNext]_vars


\* ================================================================== claims
Terminal == {"completed", "error", "cancelled"}
Active(c) == status[c] \in {"pending", "running"}

\* the messages call c pushed on the session object it works on
OwnMessages(c) ==
  LET Mine(m) == m.by = c
  IN IF session[c] = NoObject THEN <<>> ELSE SelectSeq(heap[session[c]], Mine)

\* C1: for every session id at most one run bound to it is active (pending
\* or running) at any time.
C1_OneActiveRunPerSession ==
  \A c, d \in Calls :
    (c # d /\ Active(c) /\ Active(d)) => sessionId[c] # sessionId[d]

Contiguous(msgs) ==
  \A i, k \in 1..Len(msgs) :
    (i < k /\ msgs[i].by = msgs[k].by) => \A j \in i..k : msgs[j].by = msgs[i].by

\* C2: in a session's message sequence the messages of each run are one
\* contiguous block, and when a later run on the same session makes its
\* first model call the earlier run has ended and its messages are all in
\* the context.
C2_RunsNotInterleaved ==
  /\ \A o \in Calls : Contiguous(heap[o])
  /\ \A s \in SessionIds : Contiguous(disk[s].content)
  /\ \A c, d \in Calls :
       (c < d /\ sessionId[c] = sessionId[d] /\ pc[d] = "generate" /\ iteration[d] = 1)
         => /\ pc[c] = "done"
            /\ \A i \in 1..Len(OwnMessages(c)) :
                 \E j \in 1..Len(context[d]) : context[d][j] = OwnMessages(c)[i]

StatusSteps ==
  { <<"none", "pending">>, <<"pending", "running">>, <<"running", "completed">>,
    <<"running", "error">>, <<"running", "cancelled">> }

\* C3: a run's status changes only along pending -> running -> completed,
\* error or cancelled; a terminal status never changes again.
C3_StatusTransitions ==
  [][\A c \in Calls :
       status'[c] # status[c] => <<status[c], status'[c]>> \in StatusSteps]_vars

\* C4: after a run has reached a terminal state no event carrying its run id
\* is emitted any more.
C4_NoEventAfterTerminal ==
  [][\A c \in Calls : status[c] \in Terminal => emitted'[c] = emitted[c]]_vars

\* C5: a run cancelled while it waits on a tool makes no further model call
\* and the Run record its caller gets has status cancelled.
C5_CancelBeforeNextModelCall ==
  [][\A c \in Calls :
       cancelled[c] = "tool"
         => /\ iteration'[c] = iteration[c]
            /\ pc'[c] = "done" => status'[c] = "cancelled"]_vars

\* C6: cancel(runId) returns true exactly when the call moved a run to
\* cancelled, and then that run had the given id, was active and is removed
\* from the live-run index; when it returns false no status and no index
\* entry changes; for an id no run has, or whose runs are all terminal, it
\* returns false.
C6_CancelReturn ==
  [][\A rid \in RunIds :
       Cancel(rid) =>
         LET run == activeRuns[rid]
             moved == {c \in Calls : status[c] # "cancelled" /\ status'[c] = "cancelled"}
         IN /\ lastCancel' \in {"true", "false"}
            /\ (lastCancel' = "true") <=> (moved # {})
            /\ lastCancel' = "true"
                 => /\ moved = {run}
                    /\ runId[run] = rid
                    /\ Active(run)
                    /\ pc[run] \notin {"idle", "done"}
                    /\ activeRuns'[rid] = NoRun
                    /\ \A r \in RunIds \ {rid} : activeRuns'[r] = activeRuns[r]
            /\ lastCancel' = "false" => (status' = status /\ activeRuns' = activeRuns)
            /\ (\A c \in Calls : runId[c] = rid => status[c] \in Terminal)
                 => lastCancel' = "false"]_vars

\* a cancel() returned false after a run that an earlier cancel() had moved
\* to cancelled has ended
C6_Witness ==
  /\ lastCancel = "false"
  /\ \E c \in Calls : cancelled[c] # "no" /\ pc[c] = "done"

\* C7: a run cancelled while one of its tool calls executes appends no
\* further message to the session transcript, and the messages it appended
\* before stay.
C7_CancelledResultDiscarded ==
  [][\A c \in Calls :
       cancelled[c] = "tool" => OwnMessages(c)' = OwnMessages(c)]_vars

\* C8: a run whose model returned tool calls on every one of the
\* maxIterations iterations ends with status error and error
\* IterationLimitExceeded.
C8_IterationLimitExceeded ==
  \A c \in Calls :
    ( /\ pc[c] = "done"
      /\ Len(turns[c]) = maxIterations
      /\ \A i \in 1..Len(turns[c]) : turns[c][i].tools # <<>> )
      => (status[c] = "error" /\ error[c] = "IterationLimitExceeded")


\* what a message is in the transcript: its role, the tool calls it carries
\* and the call its tool result belongs to
NoCallId == <<0, 0>>
Shape(role, calls, callId) == [role |-> role, calls |-> calls, callId |-> callId]

ShapeOf(m) ==
  Shape(m.role,
        IF "toolCalls" \in DOMAIN m THEN m.toolCalls ELSE <<>>,
        IF "toolResults" \in DOMAIN m THEN m.toolResults[1].callId ELSE NoCallId)

ShapesOf(msgs) == [k \in 1..Len(msgs) |-> ShapeOf(msgs[k])]

\* the messages the claim expects for turn i with response t
ExpectedTurn(i, t) ==
  IF t.tools # <<>>
  THEN <<Shape("assistant", MkToolCalls(i, t.tools), NoCallId)>>
       \o [k \in 1..Len(t.tools) |-> Shape("tool", <<>>, <<i, k>>)]
  ELSE <<Shape("assistant", <<>>, NoCallId)>>

RECURSIVE ExpectedFrom(_, _)
ExpectedFrom(ts, i) ==
  IF i > Len(ts) THEN <<>> ELSE ExpectedTurn(i, ts[i]) \o ExpectedFrom(ts, i + 1)

Expected(c) == <<Shape("user", <<>>, NoCallId)>> \o ExpectedFrom(turns[c], 1)

RECURSIVE CountToolCalls(_, _)
CountToolCalls(ts, i) ==
  IF i > Len(ts) THEN 0 ELSE Len(ts[i].tools) + CountToolCalls(ts, i + 1)

\* run() of call c returned after k tool turns (k below the cap) and a plain answer
PlainAnswerRun(c) ==
  /\ pc[c] = "done"
  /\ outcome[c] = "resolved"
  /\ Len(turns[c]) >= 1
  /\ turns[c][Len(turns[c])].tools = <<>>
  /\ Len(turns[c]) - 1 < maxIterations

\* the transcript from the user message of call c on
Since(c) == SubSeq(heap[session[c]], base[c] + 1, Len(heap[session[c]]))

\* C9: a run whose model requests tools on k turns and then answers with
\* plain text ends completed; what it appended to the transcript T it found
\* is the user message, per tool turn one assistant message with that turn's
\* tool calls followed by one tool message per call in call order, and one
\* final assistant message without tool calls; these messages come after T in
\* this order, and they are all of the transcript after T when no other run
\* appended to the session meanwhile.
C9_TranscriptOfRun ==
  \A c \in Calls :
    PlainAnswerRun(c) =>
      LET Mine(m) == m.by = c
          IsTool(m) == m.role = "tool"
      IN /\ status[c] = "completed"
         /\ ShapesOf(SelectSeq(Since(c), Mine)) = Expected(c)
         /\ Len(OwnMessages(c)) = Len(Expected(c))
         /\ Len(SelectSeq(OwnMessages(c), IsTool)) = CountToolCalls(turns[c], 1)
         /\ (\A i \in 1..Len(Since(c)) : Since(c)[i].by = c)
              => ShapesOf(Since(c)) = Expected(c)

\* a run on the stored transcript of "main" ended after a turn with two tool
\* calls, a second tool turn and a plain answer
C9_Witness ==
  \E c \in Calls :
    /\ PlainAnswerRun(c)
    /\ base[c] = Len(PriorTranscript)
    /\ Len(turns[c]) = 3
    /\ Len(turns[c][1].tools) = 2
    /\ Len(turns[c][2].tools) = 1
    /\ \A i \in 1..Len(Since(c)) : Since(c)[i].by = c

\* the tool events of phase "error" call c emitted
ToolErrorIds(c) ==
  { emitted[c][k].callId :
      k \in {j \in 1..Len(emitted[c]) :
               emitted[c][j].type = "tool" /\ emitted[c][j].phase = "error"} }

\* turn i of call c is over: its messages were pushed
TurnOver(c, i) == ~ (pc[c] = "tool" /\ iteration[c] = i)

HasErrorResult(c, id) ==
  \E k \in 1..Len(OwnMessages(c)) :
    LET m == OwnMessages(c)[k]
    IN /\ m.role = "tool"
       /\ m.toolResults[1].callId = id
       /\ m.toolResults[1].error # Undefined
       /\ m.toolResults[1].result = Null

\* C10: a failing tool invocation (tool unknown, tool disabled, execute
\* raising) gives a ToolResult with an error, which is appended as a tool
\* message, and the run goes on to the next model call; a run ends in status
\* error only with the failure of a model call.
C10_ToolFailureContained ==
  \A c \in Calls :
    /\ status[c] = "error" => (error[c] \in {ErrorText(e) : e \in ModelErrors} /\ pc[c] = "done")
    /\ \A id \in ToolErrorIds(c) :
         TurnOver(c, id[1]) =>
           /\ HasErrorResult(c, id)
           /\ id[1] < maxIterations => iteration[c] > id[1]
    /\ \A i \in 1..Len(turns[c]) : \A k \in 1..Len(turns[c][i].tools) :
         (get(turns[c][i].tools[k]) = Undefined /\ TurnOver(c, i))
           => <<i, k>> \in ToolErrorIds(c)

\* a run ended completed although an unknown tool was called and execute of
\* a known tool raised
C10_Witness ==
  \E c \in Calls :
    /\ pc[c] = "done"
    /\ status[c] = "completed"
    /\ Cardinality(ToolErrorIds(c)) >= 2
    /\ \E k \in 1..Len(OwnMessages(c)) :
         /\ OwnMessages(c)[k].role = "tool"
         /\ OwnMessages(c)[k].toolResults[1].error \in ToolErrors


\* ---------------------------------------------------------------------- C11
\* the fields of a call that a model call or a tool dispatch would change
Progress(c) == <<pc[c], status[c], error[c], iteration[c], toolIdx[c], turns[c],
                 emitted[c], outcome[c]>>
ProgressNext(c) == <<pc'[c], status'[c], error'[c], iteration'[c], toolIdx'[c], turns'[c],
                     emitted'[c], outcome'[c]>>

\* C11: when a generate call fails the run ends in that step with status
\* error and the description of the thrown failure, a lifecycle error event is
\* its last event, and from then on the call makes no model call and
\* dispatches no tool: nothing of it changes any more.
C11_ModelFailureEndsRun ==
  [][\A c \in Calls :
       /\ (pc[c] = "generate" /\ pc'[c] # "generate" /\ turns'[c] = turns[c])
            => /\ pc'[c] = "done"
               /\ status'[c] = "error"
               /\ \E err \in ModelErrors : error'[c] = err.message
               /\ emitted'[c] = Append(emitted[c], LifecycleEvent(runId[c], "error"))
               /\ iteration'[c] = iteration[c]
               /\ toolIdx'[c] = toolIdx[c]
       /\ (pc[c] = "done" /\ status[c] = "error") => ProgressNext(c) = Progress(c)]_vars

C11_Witness ==
  \E c \in Calls :
    /\ pc[c] = "done" /\ status[c] = "error" /\ error[c] = "timeout"
    /\ iteration[c] > 1 /\ Len(turns[c]) > 0

\* ---------------------------------------------------------------------- C12
\* C12: every call of run() that ended returned the Run record (its promise
\* resolved) with a terminal status: error when the loop failed, cancelled
\* when the run was cancelled, completed otherwise.
C12_RunReturnsRecord ==
  \A c \in Calls :
    pc[c] = "done" =>
      /\ outcome[c] = "resolved"
      /\ status[c] \in Terminal
      /\ (error[c] # Undefined <=> status[c] = "error")
      /\ (cancelled[c] # "no" /\ error[c] = Undefined => status[c] = "cancelled")

\* ---------------------------------------------------------------------- C13
IsRes(f) == f.type = "res"
Res(fs) == SelectSeq(fs, IsRes)

\* the frames handleRequest answers after an await
Async(f) == f.method = "status" \/ (f.method = "agent" /\ f.params.present)

\* C13: a request frame is answered by exactly one res frame with its id, sent
\* to the connection it came from: in the step that receives it when the
\* handler does not wait, in the step where run() has settled for an agent
\* request (ok exactly when the run was returned), in the step where list()
\* returned for a status request; no step sends two res frames to a
\* connection, none sends a res frame nobody asked for, and a request that was
\* answered is not answered again.
C13_OneResponsePerRequest ==
  [][\A k \in Conns :
       LET rs == Res(sent'[k])
           f == received'.frame
           sync == received'.conn = k /\ f.json = "object" /\ ~ Async(f)
           agent == {c \in Calls : pc[c] = "done" /\ pc'[c] = "responded" /\ caller[c] = k}
           stat == statusPending.conn = k /\ statusPending' = NoStatus
       IN /\ Len(rs) <= 1
          /\ sync => Len(rs) = 1 /\ rs[1].id = f.id
          /\ \A c \in agent :
               readyState[k] = "OPEN"
                 => /\ Len(rs) = 1
                    /\ rs[1].id = RequestIdOf(c)
                    /\ rs[1].ok = (outcome[c] = "resolved")
          /\ (stat /\ readyState[k] = "OPEN") => Len(rs) = 1 /\ rs[1].id = StatusId
          /\ rs # <<>> => \/ received'.conn = k /\ ~ Async(f)
                          \/ agent # {}
                          \/ stat
          /\ \A c \in Calls : pc[c] = "responded" => pc'[c] = "responded"]_vars

\* C13, eventually: the agent requests that wait are answered, and so is the
\* status request that waits (or the answer is dropped by send when the
\* connection is no longer open).
C13_EventuallyAnswered ==
  /\ (\E c \in Calls : pc[c] \notin {"idle", "responded"})
       ~> (\A c \in Calls : pc[c] \in {"idle", "responded"})
  /\ (statusPending # NoStatus) ~> (statusPending = NoStatus)

\* C13: both.
C13_ExactlyOneResponse == C13_OneResponsePerRequest /\ C13_EventuallyAnswered

C13_Witness ==
  /\ pc[1] = "responded" /\ outcome[1] = "rejected"
  /\ readyState[caller[1]] = "OPEN"
  /\ Res(sent[caller[1]]) # <<>>
  /\ statusPending.conn \in Conns

\* ---------------------------------------------------------------------- C14
\* C14: no call of run() is made with an empty message: the request fails
\* before a run is created.
C14_EmptyMessageRejected ==
  \A c \in Calls : pc[c] # "idle" => message[c] # ""

\* ---------------------------------------------------------------------- C15
\* the credential of a Bearer authorization header
Credential(h) ==
  IF h.present /\ h.value # <<>> /\ Head(h.value) = "Bearer "
  THEN Str(Tail(h.value))
  ELSE Absent

Refused(k) == readyState[k] = "CLOSED" /\ closeCode[k] = 1008

\* C15: in token mode a connection whose bearer credential is not the
\* configured secret is closed with code 1008 in the step that handles it,
\* without a frame and without being added to the clients or the listeners;
\* a connection closed that way stays so: no frame is ever sent to it, no
\* frame of it is handled, no call of run() is made for it.
C15_MismatchRefused ==
  [][\A k \in Conns :
       /\ ( /\ auth.mode = "token"
            /\ upgrade'.conn = k
            /\ upgrade'.authorization.present
            /\ Credential(upgrade'.authorization) # auth.token )
          => /\ readyState'[k] = "CLOSED" /\ closeCode'[k] = 1008
             /\ sent'[k] = <<>>
             /\ k \notin clients'
             /\ \A i \in 1..Len(eventListeners') : eventListeners'[i] # k
       /\ Refused(k)
          => /\ readyState'[k] = "CLOSED" /\ closeCode'[k] = 1008
             /\ sent'[k] = <<>>
             /\ k \notin clients'
             /\ received'.conn # k
             /\ \A c \in Calls : caller'[c] # k]_vars

C15_Witness ==
  /\ auth.mode = "token"
  /\ \E k \in Conns :
       /\ upgrade.conn = k /\ Refused(k)
       /\ upgrade.authorization.present
       /\ Credential(upgrade.authorization) # auth.token
       /\ \E j \in clients : j # k /\ caller[1] = j /\ pc[1] = "tool"

\* ---------------------------------------------------------------------- C16
\* C16: in token mode, whatever secret is configured, the connection just
\* handled is refused when it presented no credential, and is open only when
\* its credential is the configured secret.
C16_TokenRequired ==
  \A k \in Conns :
    (auth.mode = "token" /\ upgrade.conn = k)
      => /\ ~ upgrade.authorization.present => Refused(k)
         /\ readyState[k] = "OPEN"
              => /\ upgrade.authorization.present
                 /\ Credential(upgrade.authorization) = auth.token

\* ---------------------------------------------------------------------- C17
\* C17: without authentication (mode none or no auth configured) the
\* connection just handled is open, is a client, and the welcome event is what
\* was sent to it; nothing is sent to a connection that was not made yet, so
\* the welcome event is its first frame.
C17_WelcomeFirst ==
  \A k \in Conns :
    /\ readyState[k] = "none" => sent[k] = <<>>
    /\ (auth.mode \in {Undefined, "none"} /\ upgrade.conn = k)
         => /\ readyState[k] = "OPEN"
            /\ k \in clients
            /\ sent[k] = <<WelcomeFrame>>

C17_Witness ==
  /\ auth.mode = Undefined
  /\ upgrade.conn = 2
  /\ upgrade.authorization = Absent
  /\ caller[1] = 1 /\ pc[1] = "generate"

\* ---------------------------------------------------------------------- C18
\* a frame that cannot be parsed, is not an object, or lacks method or params
MissingField(f) ==
  f.json \in {"invalid", "null"} \/ f.method = Undefined \/ ~ f.params.present

\* the same, params counting as missing only for the method that reads them
Malformed(f) ==
  f.json \in {"invalid", "null"} \/ f.method = Undefined
    \/ (f.method = "agent" /\ ~ f.params.present)

\* the step that handles the frame f of connection k answers it with one
\* error reply and changes nothing else
ErrorReplyOnly(k, f) ==
  /\ Len(sent'[k]) = 1
  /\ sent'[k][1].type = "res"
  /\ ~ sent'[k][1].ok
  /\ f.id # Undefined => sent'[k][1].id = f.id
  /\ \A j \in Conns \ {k} : sent'[j] = <<>>
  /\ readyState' = readyState /\ readyState[k] = "OPEN"
  /\ clients' = clients /\ closeCode' = closeCode
  /\ eventListeners' = eventListeners
  /\ UNCHANGED <<agentVars, caller, statusPending>>

IsAgentEvent(f) == f.type = "event" /\ f.event = "agent"

OfRun(fs, rid) == SelectSeq(fs, LAMBDA f : IsAgentEvent(f) /\ f.payload.runId = rid)

\* C20: the event frames of a run that a step sends to an open connection are
\* the events the run emitted in that step, each once and in the order of
\* emission; a step of another run sends no frame of this run.
C20_EventsInOrder ==
  [][\A c \in Calls : \A k \in Conns :
       (readyState[k] = "OPEN" /\ pc'[c] # "idle")
         => OfRun(sent'[k], runId'[c])
              = [i \in 1..Len(NewEvents(c)) |-> EventFrame(NewEvents(c)[i])]]_vars

C20_Witness ==
  /\ readyState[1] = "OPEN" /\ readyState[2] = "OPEN"
  /\ pc[1] = "tool" /\ pc[2] = "tool"
  /\ \E c \in Calls : Len(OfRun(sent[2], runId[c])) >= 3

\* ---------------------------------------------------------------------- C21
\* the calls whose getOrCreate returned a session of id sid
Holders(sid) == {c \in Calls : sessionId[c] = sid /\ session[c] # NoObject}

\* C21: there is one Session object per id: all the calls whose getOrCreate
\* returned a session of an id hold the same object, which is the one the
\* cache holds, so that what one of them appends the others see and a save
\* writes.
C21_OneSessionPerId ==
  \A sid \in SessionIds :
    \A c, d \in Holders(sid) :
      /\ session[c] = session[d]
      /\ sessions[sid] = session[c]

\* ---------------------------------------------------------------------- C22
IsPrefix(s, t) == Len(s) <= Len(t) /\ SubSeq(t, 1, Len(s)) = s

\* the transcript the cache holds for a session id, empty when it holds none
Cached(sid) == IF sessions[sid] = NoObject THEN <<>> ELSE heap[sessions[sid]]
CachedNext(sid) == IF sessions'[sid] = NoObject THEN <<>> ELSE heap'[sessions'[sid]]

\* C22: a session's transcript only grows: in every step the cached
\* transcript and the persisted transcript of each session id are prefixes of
\* what they are after the step.
C22_AppendOnly ==
  [][\A sid \in SessionIds :
       /\ IsPrefix(Cached(sid), CachedNext(sid))
       /\ IsPrefix(disk[sid].content, disk'[sid].content)]_vars

\* ---------------------------------------------------------------------- C23
\* no other call got the session object call c works on, so the object is
\* as it was when c passed it to save
SoleHolder(c) == \A d \in Calls \ {c} : session[d] # session[c]

\* the step in which the save call c awaits completes
SaveCompletes(c) == pc[c] \in {"saving", "creating"} /\ pc'[c] \in {"done", "generate"}

\* C23: when a save(session) completes, a getOrCreate of that id returns a
\* session with the transcript of the session that was saved, the file holds
\* the JSON text of that transcript (what a store that starts then reads),
\* and the files of the other sessions are as they were.
C23_RoundTrip ==
  [][\A c \in Calls :
       SaveCompletes(c) =>
         LET sid == sessionId[c]
             saved == heap[session[c]]
         IN /\ sessions[sid] # NoObject
            /\ heap[sessions[sid]] = saved
            /\ disk'[sid].exists /\ disk'[sid].whole
            /\ SoleHolder(c) =>
                 JsonStringify(JsonParse(disk'[sid].content)) = JsonStringify(saved)
            /\ \A s \in SessionIds \ {sid} : disk'[s] = disk[s]]_vars

\* ---------------------------------------------------------------------- C24
\* C24: a reader of the session files never sees a file that save is writing
\* as anything but the whole previous or the whole new transcript: list()
\* returns a session for every file of the directory, and no getOrCreate fails
\* to parse the file it loads.
C24_SaveAtomic ==
  [][/\ List => listed'.ids = {sid \in SessionIds : disk[sid].exists}
     /\ \A c \in Calls : ~ LoadFails(c)]_vars

\* ---------------------------------------------------------------------- C25
\* a session of this id is cached or has a file
Exists(sid) == sessions[sid] # NoObject \/ disk[sid].exists

\* the step in which the getOrCreate of call c returns
Returns(c) == pc[c] \in {"gotSession", "loading"} /\ pc'[c] # pc[c]

\* C25: a getOrCreate of an id whose session exists creates no session and
\* writes nothing, and it returns that session: when it returns, the session
\* the cache holds for the id is the one it held before, and the one returned.
C25_GetOrCreateIdempotent ==
  [][\A c \in Calls :
       LET sid == sessionId[c]
       IN /\ (pc[c] = "created" /\ pc'[c] # "created" /\ Exists(sid))
               => /\ pc'[c] \in {"gotSession", "loading"}
                  /\ wbuf' = wbuf /\ disk' = disk /\ heap' = heap
          /\ Returns(c)
               => /\ disk' = disk
                  /\ sessions[sid] # NoObject
                       => (sessions'[sid] = sessions[sid] /\ session'[c] = sessions[sid])]_vars

\* ---------------------------------------------------------------------- C26
\* the file of the session holds the transcript of the object call c works on
Persisted(c) ==
  /\ disk[sessionId[c]].exists /\ disk[sessionId[c]].whole
  /\ disk[sessionId[c]].content = JsonStringify(heap[session[c]])

\* C26: a run persists the session after every append: whenever it waits for
\* the model the file holds the transcript it built so far, and when it has
\* ended, by failure or cancellation too, the file holds the messages it
\* appended.
C26_PersistedAfterMutation ==
  \A c \in Calls :
    /\ pc[c] = "generate" => Persisted(c)
    /\ pc[c] = "done" /\ session[c] # NoObject =>
         \A i \in 1..Len(OwnMessages(c)) :
           \E j \in 1..Len(disk[sessionId[c]].content) :
             disk[sessionId[c]].content[j] = JsonMessage(OwnMessages(c)[i])

\* ---------------------------------------------------------------------- C27
\* a list is configured when it is given and names something; the invocation
\* matches a list that names its tool
ListConfigured(l) == l.present /\ l.items # {}
Matches(toolName, l) == toolName \in l.items

\* the decision in the stated order: disabled, then deny-list, then allow-list
PolicyPermits(toolName, tc) ==
  IF ~ tc.configured THEN TRUE
  ELSE IF tc.config.enabled = "false" THEN FALSE
  ELSE IF ListConfigured(tc.config.denylist) /\ Matches(toolName, tc.config.denylist)
  THEN FALSE
  ELSE IF ListConfigured(tc.config.allowlist) /\ ~ Matches(toolName, tc.config.allowlist)
  THEN FALSE
  ELSE TRUE

\* C27: for every enabled flag, deny-list and allow-list of a tool, a call is
\* let through (the registry returns the tool and checkPermission returns
\* true) exactly when the tool is not disabled, no configured deny-list
\* matches, and no configured allow-list fails to match.
C27_PolicyOrder ==
  (policyResult.tool # "none" /\ policyResult.permission # "none")
    => ( (policyResult.tool = "found" /\ policyResult.permission = "true")
           <=> PolicyPermits(policyInput.toolName, policyInput.config) )

\* ---------------------------------------------------------------------- C28
\* the tool name of call id of call c
ToolNameOf(c, id) == turns[c][id[1]].tools[id[2]]

\* C28: a run never invokes a tool whose policy rejects the call, and every
\* call of such a tool, once its turn is over, has a tool message with an
\* error.
C28_PolicyEnforced ==
  \A c \in Calls :
    /\ pc[c] = "tool" =>
         LET name == toolCalls[c][toolIdx[c]].name
         IN PolicyPermits(name, configOf(name))
    /\ \A i \in 1..Len(turns[c]) : \A k \in 1..Len(turns[c][i].tools) :
         ( /\ TurnOver(c, i)
           /\ ~ PolicyPermits(ToolNameOf(c, <<i, k>>), configOf(ToolNameOf(c, <<i, k>>))) )
           => HasErrorResult(c, <<i, k>>)

\* ---------------------------------------------------------------------- C29
\* getRun(rid), line 286: the run the index holds under the id
getRun(rid) == activeRuns[rid]

\* C29: the live-run index holds a run exactly while it is pending or
\* running: a run that getRun returns is active, an active run is what getRun
\* returns for its id, and getRun does not return a run that has ended.
C29_IndexedWhileActive ==
  /\ \A rid \in RunIds : getRun(rid) # NoRun => Active(getRun(rid))
  /\ \A c \in Calls :
       /\ Active(c) => getRun(runId[c]) = c
       /\ status[c] \in Terminal => getRun(runId[c]) # c

\* ---------------------------------------------------------------------- C30
\* C30: at no time are more runs active (pending or running) than the
\* configured maxConcurrent.
C30_MaxConcurrent ==
  Cardinality({c \in Calls : Active(c)}) <= maxConcurrent

\* ---------------------------------------------------------------------- C31
\* the run of call a waits for the model or for a tool
Suspended(a) == pc[a] \in {"generate", "tool"}

\* the step sends connection k a response with this request id
Answers(k, id) ==
  \E i \in 1..Len(sent'[k]) : sent'[k][i].type = "res" /\ sent'[k][i].id = id

\* the next step of the run of call b, whatever the model and the tool return
StepOf(b) ==
  \/ Begin(b) /\ Forward(b)
  \/ GotSession(b) /\ Forward(b)
  \/ Loaded(b) /\ Forward(b)
  \/ \E resp \in GatewayResponses : Generate(b, resp) /\ Forward(b)
  \/ \E value \in ToolValues : ToolReturns(b, value) /\ Forward(b)
  \/ Saved(b) /\ Forward(b)

\* C31: while the run of one client's agent request waits for the model or a
\* tool, a request of another client is handled: a health request is answered
\* in the step that receives it, a status request is taken and answered when
\* list() returns, a further agent request is started, and its run takes its
\* steps and is answered when it has ended.  (The only conditions are those of
\* the model's bounds: one status request at a time, the model calls.)
C31_NotBlocked ==
  \A a \in Calls : Suspended(a) =>
    \A k \in Conns \ {caller[a]} : readyState[k] = "OPEN" =>
      /\ ENABLED (Message(k, HealthFrame) /\ Answers(k, SyncId))
      /\ statusPending = NoStatus => ENABLED StatusRequest(k)
      /\ statusPending.conn = k => ENABLED (StatusReplies(k) /\ Answers(k, StatusId))
      /\ \A b \in Calls \ {a} :
           /\ (pc[b] = "idle" /\ modelCalls <= MaxModelCalls)
                => ENABLED AgentRequest(k, b, Undefined, "list files")
           /\ (caller[b] = k /\ pc[b] \in {"created", "gotSession", "loading", "tool", "saving"})
                => ENABLED StepOf(b)
           /\ (caller[b] = k /\ pc[b] = "generate" /\ ModelAnswers) => ENABLED StepOf(b)
           /\ (caller[b] = k /\ pc[b] = "done")
                => ENABLED (Respond(b) /\ Answers(k, RequestIdOf(b)))

\* the agent request of one client was answered in the last step while the
\* run of another client's request waits for a tool
C31_Witness ==
  \E a, b \in Calls :
    /\ pc[a] = "tool" /\ pc[b] = "responded"
    /\ caller[a] # caller[b] /\ readyState[caller[b]] = "OPEN"
    /\ \E i \in 1..Len(sent[caller[b]]) :
         sent[caller[b]][i].type = "res" /\ sent[caller[b]][i].id = RequestIdOf(b)

\* ---------------------------------------------------------------------- C32
\* the run of call c has ended: it is terminal, no longer what the index
\* holds, and the promise of run() is settled
Ended(c) ==
  /\ pc[c] = "done"
  /\ status[c] \in Terminal
  /\ getRun(runId[c]) # c
  /\ outcome[c] \in {"resolved", "rejected"}

\* C32: a run makes at most maxIterations (10) model calls, and when every
\* model call, tool dispatch and file operation returns or fails, a run that
\* was started ends: terminal status, removed from the live-run index, run()
\* returned or threw.
C32_RunTerminates ==
  /\ [](\A c \in Calls : iteration[c] <= maxIterations /\ Len(turns[c]) <= maxIterations)
  /\ \A c \in Calls : (pc[c] = "created") ~> Ended(c)

\* a run ended after ten model calls that all asked for a tool
C32_Witness ==
  \E c \in Calls :
    /\ Ended(c)
    /\ Len(turns[c]) = maxIterations
    /\ turns[c][maxIterations].tools # <<>>

\* ---------------------------------------------------------------------- C33
ErrorOf(r) == IF "error" \in DOMAIN r THEN r.error ELSE Undefined

\* the ToolResult r answers the ToolCall call, with a payload or an error
ResultOf(r, call) ==
  /\ r.callId = call.id
  /\ r.name = call.name
  /\ (r.result # Null) # (ErrorOf(r) # Undefined)

\* the messages at j+1.. of a transcript are the tool messages of the calls of
\* the assistant message at j
Dispatched(messages, j) ==
  LET calls == messages[j].toolCalls
  IN /\ j + Len(calls) <= Len(messages)
     /\ \A k \in 1..Len(calls) :
          /\ messages[j + k].role = "tool"
          /\ Len(messages[j + k].toolResults) = 1
          /\ ResultOf(messages[j + k].toolResults[1], calls[k])
     /\ j + Len(calls) < Len(messages) => messages[j + Len(calls) + 1].role # "tool"

Min(a, b) == IF a <= b THEN a ELSE b

\* the step of call c starts a model call
CallsModel(c) == iteration'[c] > iteration[c]

\* C34: whenever a run starts a model call, the context it passes is the system
\* message followed by the last min(contextWindow, n) = min(20, n) messages of
\* its session's transcript of n messages, in transcript order, the transcript
\* being the one that is there once the context is built.
C34_ContextWindow ==
  [][\A c \in Calls :
       CallsModel(c) =>
         LET transcript == heap'[session'[c]]
             n == Len(transcript)
             w == Min(contextWindow, n)
         IN /\ pc'[c] = "generate"
            /\ Len(context'[c]) = 1 + w
            /\ context'[c][1] = SystemMessage
            /\ \A k \in 1..w : context'[c][1 + k] = transcript[n - w + k]]_vars

\* a model call is pending on a transcript longer than the window, with a
\* context that starts after the transcript's first message
C34_Witness ==
  \E c \in Calls :
    /\ pc[c] = "generate"
    /\ Len(heap[session[c]]) > contextWindow
    /\ Len(context[c]) = 1 + contextWindow
    /\ context[c][2] # heap[session[c]][1]
    /\ context[c][1 + contextWindow] = heap[session[c]][Len(heap[session[c]])]

\* ---------------------------------------------------------------------- C35
\* the calls owed for the events evs: every listener of each event's channel,
\* in the order of registration, event after event
RECURSIVE Deliveries(_)
Deliveries(evs) ==
  IF evs = <<>> THEN <<>>
  ELSE LET ls == subscribed[Head(evs).type]
       IN [k \in 1..Len(ls) |-> <<ls[k], Head(evs)>>] \o Deliveries(Tail(evs))

\* C35: in the step in which a run emits events, every listener of each
\* event's channel is called, in registration order and event after event,
\* also the listeners registered after one that throws and for the events
\* after one whose listener threw; no exception of a listener leaves emit, so
\* none reaches the run that emitted.
C35_ListenersIsolated ==
  [][\A c \in Calls :
       emitted'[c] # emitted[c] =>
         /\ [k \in 1..Len(invoked') |-> <<invoked'[k].listener, invoked'[k].event>>]
              = Deliveries(NewEvents(c))
         /\ ~ escaped']_vars

\* the run completed and its 'end' event was given to a listener that threw
\* and then to the listener registered after it
C35_Witness ==
  \E c \in Calls :
    /\ pc[c] = "done"
    /\ status[c] = "completed"
    /\ outcome[c] = "resolved"
    /\ Len(invoked) = 2
    /\ invoked[1].threw
    /\ ~ invoked[2].threw
    /\ invoked[2].event = LifecycleEvent(runId[c], "end")
    /\ invoked[1].event = invoked[2].event

\* ---------------------------------------------------------------------- C36
\* C36: a run enters the live-run index under its id when it is started, and
\* no step, of its own or of another call, takes a run that is in the index
\* out of it or puts another run in its place unless the run is terminal after
\* the step, whatever run ids the callers supplied.
C36_NeverEvicted ==
  [][\A c \in Calls :
       /\ (pc[c] = "idle" /\ pc'[c] # "idle") => getRun(runId[c])' = c
       /\ (pc[c] # "idle" /\ getRun(runId[c]) = c /\ status'[c] \notin Terminal)
            => getRun(runId[c])' = c]_vars

\* ---------------------------------------------------------------------- C37
\* a call of run() on the session is under way
Busy(sid) == \E c \in Calls : sessionId[c] = sid /\ pc[c] \notin {"idle", "done"}

\* C37: whenever no run is under way on a session that the cache holds, the
\* session's file holds the cached transcript, also after a run that ended in
\* error: what a run appended is in both copies or in neither.
C37_CacheMatchesStore ==
  \A sid \in SessionIds :
    (~ Busy(sid) /\ sessions[sid] # NoObject) =>
      /\ disk[sid].exists /\ disk[sid].whole
      /\ disk[sid].content = JsonStringify(Cached(sid))

\* ---------------------------------------------------------------------- C38
\* C38: the agent holds the event subscriptions of the connected clients and
\* no others: there are as many as there are connected authenticated clients,
\* and none of a connection that was closed.
C38_SubscriptionsOfClients ==
  /\ Len(eventListeners) = Cardinality(clients)
  /\ \A k \in Conns : readyState[k] = "CLOSED" => k \notin Range(eventListeners)

\* ---------------------------------------------------------------------- C39
IsLifecycle(e, phases) == e.type = "lifecycle" /\ e.phase \in phases
IsTool(e, phases) == e.type = "tool" /\ e.phase \in phases

\* the positions of the events of a sequence that satisfy Is
Positions(evs, Is(_)) == {i \in 1..Len(evs) : Is(evs[i])}

\* C39: the events of a run, in the order it emits them: the lifecycle
\* 'start' is the first event and occurs once; a terminal lifecycle event
\* ('end' or 'error') occurs once, when the run has ended, and is the last
\* event, 'end' for a run that ended completed and 'error' for one that ended
\* in error; a tool 'start' is directly followed by the 'end' or 'error' of
\* the same call id unless the tool is still executing, every tool 'end' or
\* 'error' directly follows its 'start', and no call id is started twice.
C39_EventOrder ==
  \A c \in Calls :
    LET evs == emitted[c]
        Start(e) == IsLifecycle(e, {"start"})
        Final(e) == IsLifecycle(e, {"end", "error"})
        ToolStart(e) == IsTool(e, {"start"})
        ToolOver(e) == IsTool(e, {"end", "error"})
    IN /\ \A i \in 1..Len(evs) : evs[i].runId = runId[c]
       /\ Positions(evs, Start) = IF pc[c] = "idle" THEN {} ELSE {1}
       /\ Positions(evs, Final) = IF pc[c] = "done" THEN {Len(evs)} ELSE {}
       /\ pc[c] = "done" =>
            /\ status[c] \in {"completed", "error"}
            /\ evs[Len(evs)].phase = "end" <=> status[c] = "completed"
            /\ evs[Len(evs)].phase = "error" <=> status[c] = "error"
       /\ \A i \in Positions(evs, ToolStart) :
            /\ IF i = Len(evs) THEN pc[c] = "tool"
               ELSE ToolOver(evs[i + 1]) /\ evs[i + 1].callId = evs[i].callId
            /\ \A j \in Positions(evs, ToolStart) : evs[j].callId = evs[i].callId => j = i
       /\ \A i \in Positions(evs, ToolOver) :
            i > 1 /\ ToolStart(evs[i - 1]) /\ evs[i - 1].callId = evs[i].callId

\* a run that ended in error after assistant text and tool calls of which
\* some succeeded and some failed
C39_Witness ==
  \E c \in Calls :
    /\ pc[c] = "done"
    /\ status[c] = "error"
    /\ emitted[c][Len(emitted[c])] = LifecycleEvent(runId[c], "error")
    /\ \E i \in 1..Len(emitted[c]) : emitted[c][i].type = "assistant"
    /\ \E i \in 1..Len(emitted[c]) : IsTool(emitted[c][i], {"end"})
    /\ \E i \in 1..Len(emitted[c]) : IsTool(emitted[c][i], {"error"})

\* ---------------------------------------------------------------------- C40
\* the texts of the first n model responses of call c, one after the other
RECURSIVE TextUpTo(_, _)
TextUpTo(c, n) == IF n = 0 THEN <<>> ELSE TextUpTo(c, n - 1) \o turns[c][n].text

\* the turns of call c whose response had text, in order
TextTurns(c) ==
  LET HasText(i) == turns[c][i].text # <<>>
  IN SelectSeq([i \in 1..Len(turns[c]) |-> i], HasText)

AssistantMessages(c) ==
  LET IsAssistant(m) == m.role = "assistant"
  IN SelectSeq(OwnMessages(c), IsAssistant)

AssistantEvents(c) ==
  LET IsAssistant(e) == e.type = "assistant"
  IN SelectSeq(emitted[c], IsAssistant)

\* C40: the assistant message a run appends for its i-th turn has as content
\* the texts of its turns 1..i, one after the other; a turn whose response has
\* text emits one assistant event, whose 'full' is that same accumulated text
\* and whose 'delta' is the text of that turn alone.
C40_AccumulatedText ==
  \A c \in Calls :
    /\ Len(AssistantMessages(c)) \in {Len(turns[c]) - 1, Len(turns[c])}
    /\ \A i \in 1..Len(AssistantMessages(c)) :
         AssistantMessages(c)[i].content = TextUpTo(c, i)
    /\ Len(AssistantEvents(c)) = Len(TextTurns(c))
    /\ \A j \in 1..Len(AssistantEvents(c)) :
         /\ AssistantEvents(c)[j].delta = turns[c][TextTurns(c)[j]].text
         /\ AssistantEvents(c)[j].full = TextUpTo(c, TextTurns(c)[j])

\* a second turn with text: its event and its message carry the text of both
\* turns, its delta the second text only
C40_Witness ==
  \E c \in Calls :
    /\ Len(turns[c]) = 2
    /\ turns[c][1].text = <<"Checking">>
    /\ turns[c][2].text = <<"Done">>
    /\ Len(AssistantEvents(c)) = 2
    /\ AssistantEvents(c)[2].delta = <<"Done">>
    /\ AssistantEvents(c)[2].full = <<"Checking", "Done">>
    /\ Len(AssistantMessages(c)) = 2
    /\ AssistantMessages(c)[2].content = <<"Checking", "Done">>

====
